---- MODULE Spec2Model ----
(***************************************************************************)
(* Model of the project/task assembly engine of gantt-project-maker        *)
(* (src/src/gantt_project_maker/project_classes.py).                       *)
(*                                                                         *)
(* Dates are abstract day numbers 1..MaxDate; Python's None is the value   *)
(* None (0) for date, duration and object-reference fields.  Objects live  *)
(* in the heap objs, a sequence indexed by object identity; only objects   *)
(* that are referenced by the planner (registered in a namespace or        *)
(* attached to a project) are stored in it.                                *)
(***************************************************************************)
EXTENDS Integers, Sequences, FiniteSets, TLC

VARIABLES
    filter_employees,      \* ProjectPlanner.filter_employees (NoFilter for None)
    details,               \* ProjectPlanner.details
    collaps_tasks,         \* ProjectPlanner.collaps_tasks
    start_date,            \* ProjectPlanner.start_date (clipping window)
    end_date,              \* ProjectPlanner.end_date
    planning_start,        \* ProjectPlanner.planning_start (program-level window)
    planning_end,          \* ProjectPlanner.planning_end
    date_today,            \* ProjectPlanner.date_today (None for no today marker)
    scale,                 \* ProjectPlanner.scale (NoScale for None)
    period_info,           \* ProjectPlanner.period_info: the reporting periods, in order
    save_svg_as_pdf,       \* ProjectPlanner.save_svg_as_pdf
    employees,             \* keys of ProjectPlanner.employees
    vacations,             \* ProjectPlanner.vacations: key -> the Vacation's start and end
    VACATIONS,             \* gantt.VACATIONS: the days of the global vacation pool
    resource_vacations,    \* employee key -> the vacation intervals of its gantt.Resource
    vacations_gantt,       \* employee key -> the tasks of its project in vacations_gantt
    objs,                  \* heap: object identity -> element
    tasks_and_milestones,  \* ProjectPlanner.tasks_and_milestones: key -> identity
    subprojects,           \* ProjectPlanner.subprojects: key -> identity
    programma,             \* children of ProjectPlanner.programma
    last                   \* the last call: what was asked and how it ended

vars == <<filter_employees, details, collaps_tasks, start_date, end_date,
          planning_start, planning_end, date_today, scale, period_info,
          save_svg_as_pdf, employees,
          vacations, VACATIONS, resource_vacations, vacations_gantt,
          objs, tasks_and_milestones, subprojects, programma, last>>

plannerConfig == <<filter_employees, details, collaps_tasks, start_date, end_date,
                   planning_start, planning_end, date_today, scale, period_info,
                   save_svg_as_pdf>>

vacationState == <<vacations, VACATIONS, resource_vacations, vacations_gantt>>

(***************************************************************************)
(* Bounds of the model                                                     *)
(***************************************************************************)
MaxDate == 3
MaxObjects == 2
MaxDay == 20

(***************************************************************************)
(* Values                                                                  *)
(***************************************************************************)
None == 0
NoLabel == "None"
NoFilter == {}
NoError == ""
NoScale == "None"

Dates == 1..MaxDate

\* Two weeks of days a today marker can fall on.
Days == 7..MaxDay
Keys == {"k1", "k2"}
EmployeeKeys == {"alice", "bob"}

\* A function with an empty domain (an empty dict).
EmptyDict == [k \in {} |-> None]

\* d[key] = value of a Python dict whose values are object identities.
DictSet(d, key, value) == [k \in DOMAIN d \cup {key} |-> IF k = key THEN value ELSE d[k]]

\* A dependency list handed to an element: given = FALSE is Python's None.
NoList == [given |-> FALSE, items |-> <<>>]
List(items) == [given |-> TRUE, items |-> items]

(***************************************************************************)
(* Dates.  A date is its day ordinal, as date.toordinal() counts it: the   *)
(* ordinals divisible by 7 are Sundays and ordinal % 7 = 6 is a Saturday.  *)
(* A text that names a date (a string of the settings file) is the         *)
(* negative of the ordinal; dparse.parse(text).date() gives the date back. *)
(***************************************************************************)
Text(date) == 0 - date
IsText(value) == value < 0
dparse_parse(text) == 0 - text

(***************************************************************************)
(* parse_date: a text is parsed, a date passes through, None falls back to *)
(* the default, which is parsed when it is a text.                         *)
(***************************************************************************)
parse_date(date_in, date_default) ==
    IF date_in # None
    THEN IF IsText(date_in) THEN dparse_parse(date_in) ELSE date_in
    ELSE IF date_default # None /\ IsText(date_default) THEN dparse_parse(date_default)
    ELSE date_default

(***************************************************************************)
(* get_nearest_saturday: the Saturday on or before the date, or the next   *)
(* one when that is more than half a week back.                            *)
(***************************************************************************)
previous_saturday(d) == ((d - 6) - ((d - 6) % 7)) + 6

get_nearest_saturday_Previous(date) == previous_saturday(date)

get_nearest_saturday(date) ==
    IF 2 * (date - previous_saturday(date)) > 7
    THEN previous_saturday(date) + 7
    ELSE previous_saturday(date)

(***************************************************************************)
(* gantt.Task / gantt.Milestone / gantt.Project: the chart elements.  The  *)
(* gantt module is a rendering collaborator; its constructors store what   *)
(* they are given.                                                         *)
(***************************************************************************)
gantt_Task(name, start, stop, duration, depends_of) ==
    [kind |-> "task", name |-> name, start |-> start, stop |-> stop,
     duration |-> duration, depends_of |-> depends_of,
     employees |-> {}, resources |-> {}, detail |-> FALSE, children |-> <<>>]

gantt_Milestone(name, start, depends_of) ==
    [kind |-> "milestone", name |-> name, start |-> start, stop |-> None,
     duration |-> None, depends_of |-> depends_of,
     employees |-> {}, resources |-> {}, detail |-> FALSE, children |-> <<>>]

gantt_Project(name) ==
    [kind |-> "project", name |-> name, start |-> None, stop |-> None,
     duration |-> None, depends_of |-> NoList,
     employees |-> {}, resources |-> {}, detail |-> FALSE, children |-> <<>>]

\* The outcome of a constructor or factory call: an error and no object, or
\* no error and the object.
Raise(error) == [err |-> error, obj |-> <<>>]
Return(object) == [err |-> NoError, obj |-> <<object>>]

(***************************************************************************)
(* BasicElement.__init__: the start date is parsed and the label required. *)
(***************************************************************************)
BasicElement_init(label, start) ==
    IF label = NoLabel THEN "ValueError" ELSE NoError

(***************************************************************************)
(* Task.__init__: the checks on end and duration, in the code's order.     *)
(* Comparing an end date with a missing start is Python's TypeError.       *)
(***************************************************************************)
Task_check_NoNeitherCheck(start, end, duration) ==
    IF end # None /\ start = None THEN "TypeError"
    ELSE IF end # None /\ end < start THEN "ValueError"
    ELSE NoError

Task_check_NoOrderCheck(start, end, duration) ==
    IF end = None /\ duration = None THEN "ValueError"
    ELSE NoError

Task_check(start, end, duration) ==
    IF end = None /\ duration = None THEN "ValueError"
    ELSE IF end # None /\ start = None THEN "TypeError"
    ELSE IF end # None /\ end < start THEN "ValueError"
    ELSE NoError

Task_init(label, start, end, duration, detail, dependent_of) ==
    LET base == BasicElement_init(label, parse_date(start, None))
        check == Task_check(parse_date(start, None), parse_date(end, None), duration)
    IN  IF base # NoError THEN Raise(base)
        ELSE IF check # NoError THEN Raise(check)
        ELSE Return([gantt_Task(label, parse_date(start, None),
                                parse_date(end, None), duration, dependent_of)
                     EXCEPT !.detail = detail])

(***************************************************************************)
(* Milestone.__init__                                                      *)
(***************************************************************************)
Milestone_init(label, start, dependent_of) ==
    LET base == BasicElement_init(label, parse_date(start, None))
    IN  IF base # NoError THEN Raise(base)
        ELSE Return(gantt_Milestone(label, parse_date(start, None), dependent_of))

(***************************************************************************)
(* ProjectPlanner.get_dependency: tasks and milestones first, then the     *)
(* subprojects; a key in neither is fatal unless an employee filter is     *)
(* active, and then the result is None.  warning: a warning was logged     *)
(* (the key is in both namespaces, or in neither under a filter).          *)
(***************************************************************************)
get_dependency_NeverFatal(tm, sp, flt, key) ==
    IF key \in DOMAIN tm
    THEN [err |-> NoError, dep |-> tm[key], warning |-> key \in DOMAIN sp]
    ELSE IF key \in DOMAIN sp THEN [err |-> NoError, dep |-> sp[key], warning |-> FALSE]
    ELSE [err |-> NoError, dep |-> None, warning |-> TRUE]

get_dependency_SubprojectsFirst(tm, sp, flt, key) ==
    IF key \in DOMAIN sp
    THEN [err |-> NoError, dep |-> sp[key], warning |-> key \in DOMAIN tm]
    ELSE IF key \in DOMAIN tm THEN [err |-> NoError, dep |-> tm[key], warning |-> FALSE]
    ELSE IF flt # NoFilter THEN [err |-> NoError, dep |-> None, warning |-> TRUE]
    ELSE [err |-> "AssertionError", dep |-> None, warning |-> FALSE]

get_dependency(tm, sp, flt, key) ==
    IF key \in DOMAIN tm
    THEN [err |-> NoError, dep |-> tm[key], warning |-> key \in DOMAIN sp]
    ELSE IF key \in DOMAIN sp THEN [err |-> NoError, dep |-> sp[key], warning |-> FALSE]
    ELSE IF flt # NoFilter THEN [err |-> NoError, dep |-> None, warning |-> TRUE]
    ELSE [err |-> "AssertionError", dep |-> None, warning |-> FALSE]

\* A namespace after get_dependency looked the key up in it: the lookup is a
\* subscript (lines 586 and 594), which leaves the dictionary as it is.
namespace_after_lookup_Popped(d, key) == [k \in DOMAIN d \ {key} |-> d[k]]

namespace_after_lookup(d, key) == d

(***************************************************************************)
(* A dependent_of value of the configuration: absent, a bare string, a     *)
(* list of keys, or a mapping of category to list of keys.                 *)
(***************************************************************************)
NoDependencies == [form |-> "none", keys |-> <<>>, groups |-> <<>>]
DepStr(key) == [form |-> "str", keys |-> <<key>>, groups |-> <<>>]
DepList(keys) == [form |-> "list", keys |-> keys, groups |-> <<>>]
DepDict(groups) == [form |-> "dict", keys |-> <<>>, groups |-> groups]

RECURSIVE resolve_keys(_, _, _, _, _, _)
resolve_keys(tm, sp, flt, keys, i, acc) ==
    IF i > Len(keys) THEN [err |-> NoError, items |-> acc]
    ELSE LET d == get_dependency(tm, sp, flt, keys[i])
         IN  IF d.err # NoError THEN [err |-> d.err, items |-> acc]
             ELSE resolve_keys(tm, sp, flt, keys, i + 1, Append(acc, d.dep))

RECURSIVE resolve_groups_PerCategory(_, _, _, _, _, _)
resolve_groups_PerCategory(tm, sp, flt, groups, g, acc) ==
    IF g > Len(groups) THEN [err |-> NoError, items |-> acc]
    ELSE LET r == resolve_keys(tm, sp, flt, groups[g], 1, <<>>)
         IN  IF r.err # NoError THEN r
             ELSE resolve_groups_PerCategory(tm, sp, flt, groups, g + 1, r.items)

RECURSIVE resolve_groups(_, _, _, _, _, _)
resolve_groups(tm, sp, flt, groups, g, acc) ==
    IF g > Len(groups) THEN [err |-> NoError, items |-> acc]
    ELSE LET r == resolve_keys(tm, sp, flt, groups[g], 1, acc)
         IN  IF r.err # NoError THEN r
             ELSE resolve_groups(tm, sp, flt, groups, g + 1, r.items)

(***************************************************************************)
(* ProjectPlanner.get_dependencies: None for an absent dependent_of,       *)
(* otherwise the list of what get_dependency returned for each key.        *)
(***************************************************************************)
get_dependencies(tm, sp, flt, dependencies) ==
    IF dependencies.form = "none" THEN [err |-> NoError, deps |-> NoList]
    ELSE LET r == IF dependencies.form = "dict"
                  THEN resolve_groups(tm, sp, flt, dependencies.groups, 1, <<>>)
                  ELSE resolve_keys(tm, sp, flt, dependencies.keys, 1, <<>>)
         IN  [err |-> r.err, deps |-> List(r.items)]

\* The keys a dependent_of value names, in order.
RECURSIVE Flatten(_)
Flatten(groups) ==
    IF groups = <<>> THEN <<>> ELSE Head(groups) \o Flatten(Tail(groups))

DependencyKeys(dependencies) ==
    IF dependencies.form = "dict" THEN Flatten(dependencies.groups)
    ELSE dependencies.keys

(***************************************************************************)
(* ProjectPlanner.get_employees: every key is looked up in the registry.   *)
(***************************************************************************)
get_employees(registered, contributing) ==
    IF contributing \subseteq registered THEN NoError ELSE "KeyError"

(***************************************************************************)
(* check_if_employee_in_contributing                                       *)
(***************************************************************************)
check_if_employee_in_contributing_Always(flt, contributing) == TRUE

check_if_employee_in_contributing(flt, contributing) ==
    contributing # {} /\ (contributing \cap flt) # {}

(***************************************************************************)
(* ProjectPlanner.make_task_or_milestone.  The fields of the configuration *)
(* the chart element has no attribute for (employees among them) are set   *)
(* on the element afterwards.                                              *)
(***************************************************************************)
milestone_end_given_Ignored(task_properties) == FALSE

milestone_end_given(task_properties) == task_properties.end # None

\* lines 759-791: the element is built according to its type.
make_element(registered, task_properties, dependencies) ==
    IF task_properties.type = "task"
    THEN IF get_employees(registered, task_properties.employees) # NoError
         THEN Raise(get_employees(registered, task_properties.employees))
         ELSE Task_init(task_properties.label, task_properties.start,
                        task_properties.end, task_properties.duration,
                        task_properties.detail, dependencies)
    ELSE IF task_properties.type = "milestone"
    THEN IF milestone_end_given(task_properties)
         THEN Raise("ValueError")
         ELSE Milestone_init(task_properties.label, task_properties.start, dependencies)
    ELSE Raise("AssertionError")

\* lines 793-811: the remaining fields of the configuration are set on it.
set_attributes(task_properties, made) ==
    IF made.err # NoError THEN made
    ELSE Return([made.obj[1] EXCEPT
                    !.employees = task_properties.employees,
                    !.resources = IF task_properties.type = "task"
                                  THEN task_properties.employees ELSE {}])

\* lines 757-811, once the dependencies have been looked up.
make_resolved(registered, task_properties, dependencies) ==
    IF dependencies.err # NoError THEN Raise(dependencies.err)
    ELSE set_attributes(task_properties,
                        make_element(registered, task_properties, dependencies.deps))

make_task_or_milestone(tm, sp, flt, registered, task_properties) ==
    make_resolved(registered, task_properties,
                  get_dependencies(tm, sp, flt, task_properties.dependent_of))

\* A dependency key of the configuration is in neither namespace.
HasUnresolved(tm, sp, task_properties) ==
    \E i \in 1..Len(DependencyKeys(task_properties.dependent_of)) :
        LET key == DependencyKeys(task_properties.dependent_of)[i]
        IN  key \notin DOMAIN tm /\ key \notin DOMAIN sp


(***************************************************************************)
(* ProjectPlanner.add_tasks_and_milestones.                                *)
(* tasks_and_milestones_info is a sequence of modules, a module a sequence *)
(* of entries [key, cfg] with distinct keys (a dict).  First the modules   *)
(* are peeled off into tasks_en_mp, then every collected entry is built    *)
(* and registered.                                                         *)
(***************************************************************************)
key_used_before(tasks_en_mp, task_key) ==
    \E j \in 1..Len(tasks_en_mp) : tasks_en_mp[j].key = task_key

RECURSIVE collect_module(_, _, _, _)
collect_module(flt, module_values, i, acc) ==
    IF i > Len(module_values) \/ acc.err # NoError THEN acc
    ELSE LET entry == module_values[i]
         IN  IF key_used_before(acc.mp, entry.key)
             THEN [acc EXCEPT !.err = "ValueError"]
             ELSE IF flt # NoFilter
                     /\ ~check_if_employee_in_contributing(flt, entry.cfg.employees)
             THEN collect_module(flt, module_values, i + 1, acc)
             ELSE collect_module(flt, module_values, i + 1,
                                 [acc EXCEPT !.mp = Append(@, entry)])

RECURSIVE collect_modules(_, _, _, _)
collect_modules(flt, info, m, acc) ==
    IF m > Len(info) \/ acc.err # NoError THEN acc
    ELSE collect_modules(flt, info, m + 1, collect_module(flt, info[m], 1, acc))

\* line 858: the element r of the entry is registered, unless making it failed.
register_element(entry, r, st) ==
    IF r.err # NoError THEN [st EXCEPT !.err = r.err]
    ELSE [st EXCEPT !.objs = Append(@, r.obj[1]),
                    !.tm = DictSet(@, entry.key, Len(st.objs) + 1),
                    !.made = @ \cup {entry.key}]

\* One round of the second loop: st = [objs, tm, err, made, missed].
make_and_register(sp, flt, registered, entry, st) ==
    register_element(entry,
                     make_task_or_milestone(st.tm, sp, flt, registered, entry.cfg),
                     [st EXCEPT !.missed = IF HasUnresolved(st.tm, sp, entry.cfg)
                                           THEN @ \cup {entry.key} ELSE @])

RECURSIVE make_all(_, _, _, _, _, _)
make_all(sp, flt, registered, tasks_en_mp, i, st) ==
    IF i > Len(tasks_en_mp) \/ st.err # NoError THEN st
    ELSE make_all(sp, flt, registered, tasks_en_mp, i + 1,
                  make_and_register(sp, flt, registered, tasks_en_mp[i], st))

\* lines 852-858, on what the first loop collected.
make_collected(objs0, tm, sp, flt, registered, collected) ==
    IF collected.err # NoError
    THEN [objs |-> objs0, tm |-> tm, err |-> collected.err, made |-> {}, missed |-> {}]
    ELSE make_all(sp, flt, registered, collected.mp, 1,
                  [objs |-> objs0, tm |-> tm, err |-> NoError, made |-> {}, missed |-> {}])

\* call.info = TRUE: tasks_and_milestones_info is given (modules);
\* otherwise the flat mapping tasks_and_milestones (one module) is used as is.
add_tasks_and_milestones(objs0, tm, sp, flt, registered, call) ==
    make_collected(objs0, tm, sp, flt, registered,
                   IF call.info
                   THEN collect_modules(flt, call.modules, 1, [err |-> NoError, mp |-> <<>>])
                   ELSE [err |-> NoError, mp |-> call.modules[1]])

\* The same task key occurs in two modules of the call.
DuplicateAcrossModules(modules) ==
    \E m1, m2 \in 1..Len(modules) :
        /\ m1 < m2
        /\ \E i \in 1..Len(modules[m1]), j \in 1..Len(modules[m2]) :
               modules[m1][i].key = modules[m2][j].key


(***************************************************************************)
(* start_date() and end_date() of a chart element.  A task starts at its   *)
(* start and ends at its stop or, with a duration, duration days after its *)
(* start; a milestone starts and ends at its date; a project spans its     *)
(* children.  An element without a resolvable end (end_date raising         *)
(* AssertionError) gives None; a project without children starts after    *)
(* every window.                                                           *)
(***************************************************************************)
SetMin(S) == CHOOSE x \in S : \A y \in S : x <= y
SetMax(S) == CHOOSE x \in S : \A y \in S : x >= y

RECURSIVE element_start_date(_, _)
element_start_date(heap, element) ==
    IF element.kind # "project" THEN element.start
    ELSE IF element.children = <<>> THEN MaxDate + MaxDate
    ELSE SetMin({element_start_date(heap, heap[element.children[i]]) :
                    i \in 1..Len(element.children)})

RECURSIVE element_end_date(_, _)
element_end_date(heap, element) ==
    IF element.kind = "milestone" THEN element.start
    ELSE IF element.kind = "task"
    THEN IF element.stop # None THEN element.stop
         ELSE IF element.duration # None THEN element.start + element.duration
         ELSE None
    ELSE LET ends == {element_end_date(heap, heap[element.children[i]]) :
                         i \in 1..Len(element.children)} \ {None}
         IN  IF ends = {} THEN None ELSE SetMax(ends)

\* A project that is (or holds) a project attached to itself: start_date()
\* recurses without end on it.  Children are registered before their parent
\* refers to them, so the only cycle is a project holding itself.
RECURSIVE contains_cycle(_, _)
contains_cycle(heap, id) ==
    /\ heap[id].kind = "project"
    /\ \E i \in 1..Len(heap[id].children) :
           heap[id].children[i] = id \/ contains_cycle(heap, heap[id].children[i])

\* isinstance(task, gantt.Task): a milestone is a task of the chart library.
is_gantt_Task(element) == element.kind \in {"task", "milestone"}

Min2(a, b) == IF a <= b THEN a ELSE b

(***************************************************************************)
(* ProjectPlanner.make_projects, the body of the loop over the children of *)
(* one subproject.  st carries the heap, the subprojects namespace and the *)
(* locals of the call: added_projects, main_start_date, main_end_date,     *)
(* main_contributors, and what the call did (made, missed, attached).      *)
(* pid is the identity of the project being populated.                     *)
(***************************************************************************)
\* lines 1003-1006: the child is added to the project, unless tasks are
\* collapsed; a project is always added.  id is None for an inline child.
is_attached(cfgp, element) == ~cfgp.collaps_tasks \/ element.kind = "project"

attached_heap(heap, pid, element, id, attach) ==
    IF ~attach THEN heap
    ELSE IF id = None
    THEN [Append(heap, element) EXCEPT ![pid].children = Append(@, Len(heap) + 1)]
    ELSE [heap EXCEPT ![pid].children = Append(@, id)]

\* lines 1008-1017: the contributors of the project.
main_contributors(cfgp, element, collapsed_employees, contrib) ==
    IF collapsed_employees = {}
    THEN IF element.kind = "project" THEN contrib ELSE contrib \cup element.resources
    ELSE contrib \cup (collapsed_employees \cap cfgp.registered)

\* lines 1019-1041: the span of the project, from the child's start ts and
\* end te.
main_start_date(cfgp, ts, ms0) ==
    LET ms1 == IF ms0 = None /\ cfgp.start_date <= ts /\ ts < cfgp.end_date
               THEN ts ELSE ms0
    IN  IF ms1 # None /\ cfgp.start_date < ts /\ ts < ms1 THEN ts ELSE ms1

main_end_date(cfgp, te) ==
    LET me1 == IF te = None THEN None ELSE Min2(cfgp.end_date, te)
    IN  IF me1 # None /\ me1 < te /\ te <= cfgp.end_date THEN te ELSE me1

update_span(cfgp, ts, te, st) ==
    IF ts = None THEN [st EXCEPT !.err = "TypeError"]
    ELSE [st EXCEPT !.ms = main_start_date(cfgp, ts, st.ms),
                    !.me = main_end_date(cfgp, te)]

span_child(cfgp, element, cid, st) ==
    IF element.kind = "project" /\ contains_cycle(st.objs, cid)
    THEN [st EXCEPT !.err = "RecursionError"]
    ELSE update_span(cfgp, element_start_date(st.objs, element),
                     element_end_date(st.objs, element), st)

\* lines 1003-1041: attach the child and update contributors and span.
attach_and_span(cfgp, pkey, pid, child, element, id, collapsed_employees, st) ==
    span_child(cfgp, element, IF id = None THEN Len(st.objs) + 1 ELSE id,
               [st EXCEPT
                   !.objs = attached_heap(@, pid, element, id, is_attached(cfgp, element)),
                   !.added = IF is_attached(cfgp, element) THEN @ \cup {pkey} ELSE @,
                   !.attached = IF is_attached(cfgp, element)
                                THEN @ \cup {<<pkey, child.key>>} ELSE @,
                   !.contrib = main_contributors(cfgp, element, collapsed_employees, @)])

\* lines 976-1002: the employee filter and the detail filter on a child.
filter_child(cfgp, pkey, pid, child, element, id, is_detail, collapsed_employees, st) ==
    IF cfgp.flt # NoFilter /\ element.employees = {} /\ is_gantt_Task(element)
    THEN st
    ELSE IF cfgp.flt # NoFilter /\ element.employees # {}
            /\ ~check_if_employee_in_contributing(cfgp.flt, element.employees)
    THEN st
    ELSE IF ~cfgp.details /\ is_detail THEN st
    ELSE attach_and_span(cfgp, pkey, pid, child, element, id, collapsed_employees, st)

\* lines 955-971: an inline child, made into the element r.
inline_child(cfgp, pkey, pid, child, collapsed_employees, r, st) ==
    IF r.err # NoError THEN [st EXCEPT !.err = r.err]
    ELSE filter_child(cfgp, pkey, pid, child, r.obj[1], None, r.obj[1].detail,
                      collapsed_employees,
                      [st EXCEPT !.made = @ \cup {<<pkey, child.key>>}])

\* lines 931-971: skip an inline detail, then look the child up or build it.
process_child(cfgp, tm, pkey, pid, child, collapsed_employees, st) ==
    IF ~cfgp.details /\ child.ref = "" /\ child.cfg.detail THEN st
    ELSE IF child.ref # ""
    THEN IF child.ref \in DOMAIN tm
         THEN filter_child(cfgp, pkey, pid, child, st.objs[tm[child.ref]],
                           tm[child.ref], st.objs[tm[child.ref]].detail,
                           collapsed_employees, st)
         ELSE IF child.ref \in DOMAIN st.sp
         THEN filter_child(cfgp, pkey, pid, child, st.objs[st.sp[child.ref]],
                           st.sp[child.ref], FALSE, collapsed_employees, st)
         ELSE IF cfgp.flt = NoFilter THEN [st EXCEPT !.err = "KeyError"]
         ELSE st
    ELSE inline_child(cfgp, pkey, pid, child, collapsed_employees,
                      make_task_or_milestone(tm, st.sp, cfgp.flt, cfgp.registered,
                                             child.cfg),
                      [st EXCEPT !.missed = IF HasUnresolved(tm, st.sp, child.cfg)
                                            THEN @ \cup {<<pkey, child.key>>} ELSE @])

RECURSIVE process_children(_, _, _, _, _, _, _, _)
process_children(cfgp, tm, pkey, pid, tasks, i, collapsed_employees, st) ==
    IF i > Len(tasks) \/ st.err # NoError THEN st
    ELSE process_children(cfgp, tm, pkey, pid, tasks, i + 1, collapsed_employees,
                          process_child(cfgp, tm, pkey, pid, tasks[i],
                                        collapsed_employees, st))


(***************************************************************************)
(* ProjectPlanner.make_projects, one subproject: created and registered    *)
(* (a key already registered is fatal), populated, collapsed into a        *)
(* summary task when asked, and attached to the contributor's project when *)
(* selected.                                                               *)
(***************************************************************************)
already_exists_Never(sp, project_key) == FALSE

already_exists(sp, project_key) == project_key \in DOMAIN sp

summary_task(project_key, st) ==
    [gantt_Task(project_key, st.ms,
                IF st.me = None THEN None ELSE st.me,
                IF st.me = None THEN 1 ELSE None, NoList)
     EXCEPT !.resources = st.contrib]

\* lines 1043-1066: the children collapsed into one summary task.
collapse_project(cfgp, project, pid, st) ==
    IF cfgp.collaps_tasks /\ st.ms # None /\ project.key \notin st.added
    THEN [st EXCEPT
             !.objs = [Append(@, summary_task(project.key, st))
                       EXCEPT ![pid].children = Append(@, Len(st.objs) + 1)]]
    ELSE st

\* lines 1069-1071: a subproject in the selection goes to the contributor's
\* project.
is_selected_Always(project_key, selection) == TRUE

is_selected(project_key, selection) == project_key \in selection

\* lines 1043-1071: after the children.
finish_project(cfgp, project, selection, pid, st) ==
    IF st.err # NoError THEN st
    ELSE [collapse_project(cfgp, project, pid, st)
          EXCEPT !.selected = IF is_selected(project.key, selection)
                              THEN Append(@, pid) ELSE @]

process_project(cfgp, tm, project, selection, st) ==
    IF already_exists(st.sp, project.key)
    THEN [st EXCEPT !.err = "ValueError", !.existing = project.key]
    ELSE finish_project(cfgp, project, selection, Len(st.objs) + 1,
             process_children(cfgp, tm, project.key, Len(st.objs) + 1, project.tasks, 1,
                              project.employees_collapsed,
                              [st EXCEPT
                                  !.objs = Append(@, [gantt_Project(project.key)
                                                      EXCEPT !.employees = project.employees]),
                                  !.sp = DictSet(@, project.key, Len(st.objs) + 1),
                                  !.ms = None, !.me = None, !.contrib = {}]))

RECURSIVE process_projects(_, _, _, _, _, _)
process_projects(cfgp, tm, projects, selection, p, st) ==
    IF p > Len(projects) \/ st.err # NoError THEN st
    ELSE process_projects(cfgp, tm, projects, selection, p + 1,
                          process_project(cfgp, tm, projects[p], selection, st))

\* lines 1073-1074: the contributor's project holds the selected subprojects
\* and is added to the program when every subproject went through.
add_contributor_project(st) ==
    IF st.err # NoError THEN [st EXCEPT !.top = None]
    ELSE [st EXCEPT !.objs = Append(@, [gantt_Project("contributor")
                                        EXCEPT !.children = st.selected]),
                    !.top = Len(st.objs) + 1]

make_projects(cfgp, objs0, tm, sp, call) ==
    add_contributor_project(
        process_projects(cfgp, tm, call.projects, call.selection, 1,
                         [objs |-> objs0, sp |-> sp, err |-> NoError, made |-> {},
                          missed |-> {}, attached |-> {}, added |-> {}, existing |-> "",
                          selected |-> <<>>, top |-> None,
                          ms |-> None, me |-> None, contrib |-> {}]))


(***************************************************************************)
(* The inputs of the model: configurations as the YAML files give them.    *)
(***************************************************************************)
Cfg(label, type, start, end, duration, contributing, dependent_of, detail) ==
    [label |-> label, type |-> type, start |-> start, end |-> end,
     duration |-> duration, employees |-> contributing,
     dependent_of |-> dependent_of, detail |-> detail]

Entry(key, cfg) == [key |-> key, cfg |-> cfg]

OtherKey(key) == CHOOSE k \in Keys : k # key

\* Shared tasks and milestones under a key: a task over the whole window
\* without contributor, of alice, of bob; a task of alice that depends on the
\* other key.
PlainConfigs(key) ==
    {Cfg(key, "task", 1, MaxDate, None, e, NoDependencies, FALSE) :
        e \in {{}, {"alice"}, {"bob"}}}

SharedConfigs(key) ==
    PlainConfigs(key)
    \cup {Cfg(key, "task", 1, MaxDate, None, {"alice"}, DepStr(OtherKey(key)), FALSE)}

PlainEntries == UNION {{Entry(key, cfg) : cfg \in PlainConfigs(key)} : key \in Keys}
SharedEntries == UNION {{Entry(key, cfg) : cfg \in SharedConfigs(key)} : key \in Keys}

\* tasks_and_milestones_info: one module of one or two entries with distinct
\* keys, or two modules of one entry each; or the flat mapping of one entry.
SharedCalls ==
    {[info |-> TRUE, modules |-> <<<<e>>>>] : e \in SharedEntries}
    \cup {[info |-> TRUE, modules |-> <<<<pair[1], pair[2]>>>>] :
             pair \in {pr \in SharedEntries \X SharedEntries : pr[1].key # pr[2].key}}
    \cup {[info |-> TRUE, modules |-> <<<<e1>>, <<e2>>>>] :
             e1 \in PlainEntries, e2 \in PlainEntries}
    \cup {[info |-> FALSE, modules |-> <<<<e>>>>] : e \in SharedEntries}

\* The children of a subproject: a bare key, or an inline task.
Child(key, ref, cfg) == [key |-> key, ref |-> ref, cfg |-> cfg]

InlineConfigs(key) ==
    {Cfg(key, "task", 1, 2, None, {}, NoDependencies, FALSE),
     Cfg(key, "task", 1, 2, None, {"alice"}, NoDependencies, FALSE),
     Cfg(key, "task", 1, None, 1, {"alice"}, DepStr(OtherKey(key)), FALSE)}

Children ==
    {Child(k, k, Cfg(k, "task", None, None, None, {}, NoDependencies, FALSE)) : k \in Keys}
    \cup UNION {{Child(k, "", cfg) : cfg \in InlineConfigs(k)} : k \in Keys}

Project(key, tasks) ==
    [key |-> key, tasks |-> tasks, employees |-> {}, employees_collapsed |-> {}]

ProjectCalls ==
    {[projects |-> <<Project(k, tasks)>>, selection |-> sel] :
        k \in Keys, tasks \in {<<>>} \cup {<<c>> : c \in Children},
        sel \in {{}, Keys}}
    \cup {[projects |-> <<Project(pair[1], <<>>), Project(pair[2], <<>>)>>,
            selection |-> Keys] : pair \in {pr \in Keys \X Keys : pr[1] # pr[2]}}

(***************************************************************************)
(* The planner after construction.                                         *)
(***************************************************************************)
\* What the model keeps of the last call: the operation, the error it raised,
\* and what happened in it:
\*   unresolved  a dependency key was looked up that is in neither namespace
\*   built       an element whose dependency key was in neither namespace was
\*               constructed, registered or attached all the same
\*   made        some task or milestone was constructed
\*   duplicate   the same task key occurred in two modules of the call
\*   existing    a subproject key was already in the subprojects namespace
NoCall == [op |-> "init", err |-> NoError, unresolved |-> FALSE, built |-> FALSE,
           made |-> FALSE, duplicate |-> FALSE, existing |-> FALSE]

Constructed ==
    /\ employees = {}
    /\ vacations = EmptyDict
    /\ VACATIONS = {}
    /\ resource_vacations = EmptyDict
    /\ vacations_gantt = EmptyDict
    /\ objs = <<>>
    /\ tasks_and_milestones = EmptyDict
    /\ subprojects = EmptyDict
    /\ programma = <<>>

\* A planner constructed without reporting periods, today marker and scale:
\* the clipping window is the program-level window (lines 438-456).
NoPeriods ==
    /\ planning_start = start_date
    /\ planning_end = end_date
    /\ date_today = None
    /\ scale = NoScale
    /\ period_info = <<>>
    /\ save_svg_as_pdf = FALSE

Init ==
    /\ filter_employees \in {NoFilter, {"alice"}}
    /\ details = TRUE
    /\ collaps_tasks = FALSE
    /\ start_date = 1
    /\ end_date = MaxDate
    /\ NoPeriods
    /\ Constructed
    /\ last = NoCall

PlannerSettings ==
    [flt |-> filter_employees, details |-> details, collaps_tasks |-> collaps_tasks,
     start_date |-> start_date, end_date |-> end_date, registered |-> employees]

(***************************************************************************)
(* The operations of the planner                                           *)
(***************************************************************************)
\* add_employees, for employees without vacations.
\* Employees without vacations: each gets a new resource, and an empty
\* project in the vacations chart.
add_employees(keys) ==
    /\ employees' = employees \cup keys
    /\ resource_vacations' = [k \in DOMAIN resource_vacations \cup keys |->
                                 IF k \in keys THEN <<>> ELSE resource_vacations[k]]
    /\ vacations_gantt' = [k \in DOMAIN vacations_gantt \cup keys |->
                              IF k \in keys THEN <<>> ELSE vacations_gantt[k]]
    /\ UNCHANGED <<plannerConfig, vacations, VACATIONS, objs, tasks_and_milestones,
                   subprojects, programma>>

AddEmployees ==
    \E keys \in {EmployeeKeys} :
        /\ add_employees(keys)
        /\ last' = [NoCall EXCEPT !.op = "add_employees"]

AddTasksAndMilestonesOf(calls) ==
    \E call \in calls :
        \E st \in {add_tasks_and_milestones(objs, tasks_and_milestones, subprojects,
                                            filter_employees, employees, call)} :
            /\ Len(st.objs) <= MaxObjects
            /\ objs' = st.objs
            /\ tasks_and_milestones' = st.tm
            /\ last' = [op |-> "add_tasks_and_milestones", err |-> st.err,
                        unresolved |-> st.missed # {},
                        built |-> (st.missed \cap st.made) # {},
                        made |-> st.made # {},
                        duplicate |-> call.info /\ DuplicateAcrossModules(call.modules),
                        existing |-> FALSE]
            /\ UNCHANGED <<plannerConfig, vacationState, employees, subprojects, programma>>

MakeProjectsOf(calls) ==
    \E call \in calls :
        \E st \in {make_projects(PlannerSettings, objs, tasks_and_milestones,
                                 subprojects, call)} :
            /\ Len(st.objs) <= MaxObjects
            /\ objs' = st.objs
            /\ subprojects' = st.sp
            /\ programma' = IF st.top = None THEN programma ELSE Append(programma, st.top)
            /\ last' = [op |-> "make_projects", err |-> st.err,
                        unresolved |-> st.missed # {},
                        built |-> (st.missed \cap (st.made \cup st.attached)) # {},
                        made |-> st.made # {},
                        duplicate |-> FALSE,
                        existing |-> st.existing # ""]
            /\ UNCHANGED <<plannerConfig, vacationState, employees, tasks_and_milestones>>

AddTasksAndMilestones == AddTasksAndMilestonesOf(SharedCalls)

MakeProjects == MakeProjectsOf(ProjectCalls)

Next == AddEmployees \/ AddTasksAndMilestones \/ MakeProjects

Spec == Init /\ [][Next]_vars


(***************************************************************************)
(* Task.__init__ on its own: the arguments are drawn first, then the       *)
(* constructor is applied to them.                                         *)
(***************************************************************************)
Labels == {NoLabel, "T"}
Durations == {None, 1}

InitTask ==
    /\ filter_employees = NoFilter
    /\ details = TRUE
    /\ collaps_tasks = FALSE
    /\ start_date = 1
    /\ end_date = MaxDate
    /\ NoPeriods
    /\ Constructed
    /\ last \in [op : {"Task.args"}, label : Labels, start : Dates \cup {None},
                 end : Dates \cup {None}, duration : Durations,
                 err : {NoError}, produced : {<<>>}]

ConstructTask ==
    /\ last.op = "Task.args"
    /\ \E r \in {Task_init(last.label, last.start, last.end, last.duration, FALSE, NoList)} :
        last' = [last EXCEPT !.op = "Task", !.err = r.err, !.produced = r.obj]
    /\ UNCHANGED <<plannerConfig, vacationState, employees, objs, tasks_and_milestones,
                   subprojects, programma>>

NextTask == ConstructTask

SpecTask == InitTask /\ [][NextTask]_vars

(***************************************************************************)
(* make_task_or_milestone called on a planner that holds some employees,   *)
(* shared tasks and subprojects: the configuration is drawn first, the     *)
(* planner is filled, and the factory is applied to the configuration.     *)
(***************************************************************************)
FactoryDependencies ==
    {NoDependencies, DepStr("k1"), DepList(<<"k1", "k2">>),
     DepDict(<<<<"k1">>, <<"k2">>>>)}

FactoryConfigs ==
    {Cfg(l, t, s, e, d, c, dep, FALSE) :
        l \in Labels, t \in {"task", "milestone"}, s \in {1, MaxDate},
        e \in Dates \cup {None}, d \in Durations, c \in {{}, {"alice"}},
        dep \in FactoryDependencies}

InitFactory ==
    /\ filter_employees \in {NoFilter, {"alice"}}
    /\ details = TRUE
    /\ collaps_tasks = FALSE
    /\ start_date = 1
    /\ end_date = MaxDate
    /\ NoPeriods
    /\ Constructed
    /\ last \in [op : {"make_task_or_milestone.args"}, cfg : FactoryConfigs,
                 err : {NoError}, produced : {<<>>}, unresolved : {FALSE}]

Pending == last.op = "make_task_or_milestone.args"

RegisterEmployees ==
    /\ Pending
    /\ add_employees(EmployeeKeys)
    /\ UNCHANGED last

RegisterShared ==
    /\ Pending
    /\ \E key \in Keys :
        \E st \in {add_tasks_and_milestones(
                       objs, tasks_and_milestones, subprojects, filter_employees, employees,
                       [info |-> TRUE,
                        modules |-> <<<<Entry(key, Cfg(key, "task", 1, MaxDate, None,
                                                       {"alice"}, NoDependencies, FALSE))>>>>])} :
            /\ Len(st.objs) <= MaxObjects
            /\ objs' = st.objs
            /\ tasks_and_milestones' = st.tm
    /\ UNCHANGED <<plannerConfig, vacationState, employees, subprojects, programma, last>>

RegisterProject ==
    /\ Pending
    /\ \E key \in Keys :
        \E st \in {make_projects(PlannerSettings, objs, tasks_and_milestones, subprojects,
                                 [projects |-> <<Project(key, <<>>)>>, selection |-> {}])} :
            /\ Len(st.objs) <= MaxObjects
            /\ objs' = st.objs
            /\ subprojects' = st.sp
            /\ programma' = IF st.top = None THEN programma ELSE Append(programma, st.top)
    /\ UNCHANGED <<plannerConfig, vacationState, employees, tasks_and_milestones, last>>

MakeTaskOrMilestone ==
    /\ Pending
    /\ \E r \in {make_task_or_milestone(tasks_and_milestones, subprojects,
                                        filter_employees, employees, last.cfg)} :
        last' = [last EXCEPT
                    !.op = "make_task_or_milestone", !.err = r.err,
                    !.produced = r.obj,
                    !.unresolved = HasUnresolved(tasks_and_milestones, subprojects,
                                                 last.cfg)]
    /\ UNCHANGED <<plannerConfig, vacationState, employees, objs, tasks_and_milestones,
                   subprojects, programma>>

NextFactory ==
    RegisterEmployees \/ RegisterShared \/ RegisterProject \/ MakeTaskOrMilestone

SpecFactory == InitFactory /\ [][NextFactory]_vars


(***************************************************************************)
(* make_projects called once on a planner that holds some employees, a     *)
(* shared task and a subproject: the planner's settings and the call are   *)
(* drawn first, the planner is filled, and make_projects is applied.       *)
(* The subproject p1 has up to two children: inline tasks and milestones,  *)
(* the shared task k1 or the subproject k2 by key.                         *)
(***************************************************************************)
AssemblyInline(key) ==
    {Cfg(key, "task", pair[1], pair[2], None, e, NoDependencies, FALSE) :
        pair \in {pr \in Dates \X Dates : pr[1] <= pr[2]},
        e \in {{}, {"alice"}, {"bob"}}}
    \cup {Cfg(key, "task", s, None, 1, {"alice"}, NoDependencies, FALSE) : s \in Dates}
    \cup {Cfg(key, "milestone", s, None, None, {"alice"}, NoDependencies, FALSE) :
             s \in Dates}

AssemblyChildren(key) ==
    {Child(key, "", cfg) : cfg \in AssemblyInline(key)}
    \cup {Child(key, key, Cfg(key, "task", None, None, None, {}, NoDependencies, FALSE))}

\* A child given by the bare key of an element registered elsewhere.
RefChild(key) ==
    Child(key, key, Cfg(key, "task", None, None, None, {}, NoDependencies, FALSE))

\* Subprojects that refer to subprojects: p1 lists itself; p1 lists p2 and p2
\* lists p1; p2 lists the earlier p1; and an inline task that depends on its
\* own key.
CyclicCalls ==
    {[projects |-> projects, selection |-> sel] :
        projects \in {<<Project("p1", <<RefChild("p1")>>)>>,
                      <<Project("p1", <<RefChild("p2")>>), Project("p2", <<RefChild("p1")>>)>>,
                      <<Project("p1", <<>>), Project("p2", <<RefChild("p1")>>)>>,
                      <<Project("p1", <<Child("k1", "",
                            Cfg("k1", "task", 1, 2, None, {"alice"}, DepStr("k1"), FALSE))>>)>>},
        sel \in {{}, {"p1"}}}

AssemblyCalls ==
    {[projects |-> <<Project("p1", tasks)>>, selection |-> sel] :
        tasks \in {<<>>} \cup {<<c>> : c \in AssemblyChildren("k1")}
                  \cup (AssemblyChildren("k1") \X AssemblyChildren("k2")),
        sel \in {{}, {"p1"}}}
    \cup {[projects |-> <<Project("p1", <<>>), Project("p2", <<>>)>>, selection |-> sel] :
             sel \in SUBSET {"p1", "p2"}}
    \cup CyclicCalls

InitAssembly ==
    /\ filter_employees \in {NoFilter, {"alice"}}
    /\ details = TRUE
    /\ collaps_tasks \in BOOLEAN
    /\ start_date = 1
    /\ end_date = MaxDate
    /\ NoPeriods
    /\ Constructed
    /\ last \in [op : {"make_projects.args"}, call : AssemblyCalls, err : {NoError},
                 pid : {None}, top : {None}, ms : {None}, me : {None},
                 made : {{}}, attached : {{}}]

Awaiting == last.op = "make_projects.args"

AssemblyEmployees ==
    /\ Awaiting
    /\ add_employees(EmployeeKeys)
    /\ UNCHANGED last

\* The shared task k1 of alice, on the second day of the window.
AssemblyShared ==
    /\ Awaiting
    /\ "k1" \notin DOMAIN tasks_and_milestones
    /\ \E st \in {add_tasks_and_milestones(
                       objs, tasks_and_milestones, subprojects, filter_employees, employees,
                       [info |-> TRUE,
                        modules |-> <<<<Entry("k1", Cfg("k1", "task", 2, 2, None, {"alice"},
                                                        NoDependencies, FALSE))>>>>])} :
        /\ objs' = st.objs
        /\ tasks_and_milestones' = st.tm
    /\ UNCHANGED <<plannerConfig, vacationState, employees, subprojects, programma, last>>

\* The subproject k2, without children, from an earlier call.
AssemblyNested ==
    /\ Awaiting
    /\ "k2" \notin DOMAIN subprojects
    /\ \E st \in {make_projects(PlannerSettings, objs, tasks_and_milestones, subprojects,
                                [projects |-> <<Project("k2", <<>>)>>, selection |-> {}])} :
        /\ objs' = st.objs
        /\ subprojects' = st.sp
        /\ programma' = IF st.top = None THEN programma ELSE Append(programma, st.top)
    /\ UNCHANGED <<plannerConfig, vacationState, employees, tasks_and_milestones, last>>

Assemble ==
    /\ Awaiting
    /\ \E st \in {make_projects(PlannerSettings, objs, tasks_and_milestones, subprojects,
                                last.call)} :
        /\ objs' = st.objs
        /\ subprojects' = st.sp
        /\ programma' = IF st.top = None THEN programma ELSE Append(programma, st.top)
        /\ last' = [last EXCEPT !.op = "make_projects", !.err = st.err,
                                !.pid = st.sp["p1"], !.top = st.top,
                                !.ms = st.ms, !.me = st.me,
                                !.made = st.made, !.attached = st.attached]
    /\ UNCHANGED <<plannerConfig, vacationState, employees, tasks_and_milestones>>

NextAssembly == AssemblyEmployees \/ AssemblyShared \/ AssemblyNested \/ Assemble

SpecAssembly == InitAssembly /\ [][NextAssembly]_vars


(***************************************************************************)
(* Dependency lookups against a filled planner: each key of Keys may be    *)
(* registered as a shared task, as a subproject, as both or as neither,    *)
(* and get_dependency and get_dependencies are then called on the planner. *)
(***************************************************************************)
KeyLists ==
    {<<>>} \cup {<<a>> : a \in Keys} \cup {<<a, b>> : a \in Keys, b \in Keys}

\* The ways to spread a list of keys over one or two categories of a mapping.
Groupings(keys) ==
    {groups \in {<<g>> : g \in KeyLists} \cup (KeyLists \X KeyLists) :
        Flatten(groups) = keys}

LookupDependencies ==
    {NoDependencies}
    \cup {DepStr(k) : k \in Keys}
    \cup {DepList(keys) : keys \in KeyLists}
    \cup {DepDict(groups) : groups \in {<<<<"k1">>, <<"k2">>>>, <<<<>>, <<"k2", "k1">>>>,
                                        <<<<"k1", "k1">>>>, <<<<"k2">>, <<>>>>}}

NoLookup == [op |-> "init", key |-> "", dependencies |-> NoDependencies,
             err |-> NoError, dep |-> None, deps |-> NoList, warning |-> FALSE,
             nth |-> 0]

InitLookup ==
    /\ filter_employees \in {NoFilter, {"alice"}}
    /\ details = TRUE
    /\ collaps_tasks = FALSE
    /\ start_date = 1
    /\ end_date = MaxDate
    /\ NoPeriods
    /\ Constructed
    /\ last = NoLookup

LookupEmployees ==
    /\ add_employees(EmployeeKeys)
    /\ last' = [NoLookup EXCEPT !.op = "add_employees"]

\* A shared task of alice under a key that has none yet.
LookupShared ==
    \E key \in Keys, s \in Dates :
        /\ key \notin DOMAIN tasks_and_milestones
        /\ \E st \in {add_tasks_and_milestones(
                           objs, tasks_and_milestones, subprojects, filter_employees,
                           employees,
                           [info |-> TRUE,
                            modules |-> <<<<Entry(key, Cfg(key, "task", s, s, None, {"alice"},
                                                           NoDependencies, FALSE))>>>>])} :
            /\ st.err = NoError
            /\ objs' = st.objs
            /\ tasks_and_milestones' = st.tm
        /\ last' = [NoLookup EXCEPT !.op = "add_tasks_and_milestones"]
        /\ UNCHANGED <<plannerConfig, vacationState, employees, subprojects, programma>>

\* A subproject without children under a key that has none yet.
LookupProject ==
    \E key \in Keys :
        /\ key \notin DOMAIN subprojects
        /\ \E st \in {make_projects(PlannerSettings, objs, tasks_and_milestones, subprojects,
                                    [projects |-> <<Project(key, <<>>)>>, selection |-> {}])} :
            /\ st.err = NoError
            /\ objs' = st.objs
            /\ subprojects' = st.sp
            /\ programma' = IF st.top = None THEN programma ELSE Append(programma, st.top)
        /\ last' = [NoLookup EXCEPT !.op = "make_projects"]
        /\ UNCHANGED <<plannerConfig, vacationState, employees, tasks_and_milestones>>

\* One call of get_dependency; nth counts the calls made in a row with the
\* same key, up to two.
GetDependency ==
    \E key \in Keys :
        /\ ~(last.op = "get_dependency" /\ last.key = key /\ last.nth = 2)
        /\ \E d \in {get_dependency(tasks_and_milestones, subprojects, filter_employees, key)} :
            last' = [NoLookup EXCEPT !.op = "get_dependency", !.key = key,
                                     !.err = d.err, !.dep = d.dep, !.warning = d.warning,
                                     !.nth = IF last.op = "get_dependency" /\ last.key = key
                                             THEN 2 ELSE 1]
        /\ tasks_and_milestones' = namespace_after_lookup(tasks_and_milestones, key)
        /\ subprojects' = namespace_after_lookup(subprojects, key)
        /\ UNCHANGED <<plannerConfig, vacationState, employees, objs, programma>>

GetDependencies ==
    \E dependencies \in LookupDependencies :
        /\ \E r \in {get_dependencies(tasks_and_milestones, subprojects, filter_employees,
                                      dependencies)} :
            last' = [NoLookup EXCEPT !.op = "get_dependencies",
                                     !.dependencies = dependencies,
                                     !.err = r.err, !.deps = r.deps]
        /\ UNCHANGED <<plannerConfig, vacationState, employees, objs, tasks_and_milestones, subprojects,
                       programma>>

NextLookup ==
    LookupEmployees \/ LookupShared \/ LookupProject \/ GetDependency \/ GetDependencies

SpecLookup == InitLookup /\ [][NextLookup]_vars

(***************************************************************************)
(* ProjectPlanner.write_planning: for every reporting period that is asked *)
(* for, the scale, the window and the today marker are resolved from the   *)
(* period's properties and the program-level settings, and the renderer    *)
(* (programma.make_svg_for_tasks) is called with them.  The file names,    *)
(* the margins and the resource and vacation charts are left out.          *)
(***************************************************************************)
SCALES == [daily |-> "d", weekly |-> "w", monthly |-> "m", quarterly |-> "q"]

\* period_prop.get(...) gives None for a property the period does not set.
PeriodProp(scale_key, start, end, today) ==
    [scale |-> scale_key, planning_start |-> start, planning_end |-> end, today |-> today]

period_scale(period_prop, program_scale) ==
    IF period_prop.scale # NoScale THEN SCALES[period_prop.scale] ELSE program_scale

period_window_StartOnly(period_prop, program_start, program_end) ==
    [start |-> parse_date(period_prop.planning_start, program_start),
     end |-> IF period_prop.planning_start # None
             THEN None
             ELSE parse_date(period_prop.planning_end, program_end)]

period_window(period_prop, program_start, program_end) ==
    [start |-> parse_date(period_prop.planning_start, program_start),
     end |-> parse_date(period_prop.planning_end, program_end)]

snap_today(today, chart_scale) ==
    IF today # None /\ chart_scale # SCALES.daily
    THEN get_nearest_saturday(today)
    ELSE today

period_today(period_prop, program_today, chart_scale) ==
    snap_today(parse_date(period_prop.today, program_today), chart_scale)

\* The arguments of programma.make_svg_for_tasks for one period.
make_svg_for_tasks(period_key, window, chart_scale, today) ==
    [period |-> period_key, start |-> window.start, end |-> window.end,
     scale |-> chart_scale, today |-> today]

write_period(cfgw, period) ==
    make_svg_for_tasks(
        period.key,
        period_window(period.prop, cfgw.planning_start, cfgw.planning_end),
        period_scale(period.prop, cfgw.scale),
        period_today(period.prop, cfgw.date_today, period_scale(period.prop, cfgw.scale)))

\* periods: the period keys asked for; given = FALSE is None, every period.
RECURSIVE write_planning(_, _, _, _)
write_planning(cfgw, periods, i, calls) ==
    IF i > Len(cfgw.period_info) THEN calls
    ELSE IF periods.given /\ cfgw.period_info[i].key \notin periods.keys
    THEN write_planning(cfgw, periods, i + 1, calls)
    ELSE write_planning(cfgw, periods, i + 1,
                        Append(calls, write_period(cfgw, cfgw.period_info[i])))

WriterSettings ==
    [planning_start |-> planning_start, planning_end |-> planning_end,
     date_today |-> date_today, scale |-> scale, period_info |-> period_info]

\* The properties a period can have: a scale or none; for each bound of the
\* window and for the today marker a date, a text or nothing.
PeriodProps ==
    {PeriodProp(k, s, e, t) :
        k \in {NoScale, "daily", "weekly", "quarterly"},
        s \in {None, 2, Text(MaxDate)},
        e \in {None, 2, Text(1)},
        t \in {None, 9, Text(12)}}

Period(key, prop) == [key |-> key, prop |-> prop]

NoProps == PeriodProp(NoScale, None, None, None)

NoWrite == [op |-> "init", periods |-> [given |-> FALSE, keys |-> {}], calls |-> <<>>]

InitWriter ==
    /\ filter_employees = NoFilter
    /\ details = TRUE
    /\ collaps_tasks = FALSE
    /\ planning_start \in {None, 1}
    /\ planning_end \in {None, MaxDate}
    /\ start_date = planning_start
    /\ end_date = planning_end
    /\ date_today \in {None} \cup Days
    /\ scale \in {NoScale, SCALES.daily, SCALES.weekly}
    /\ period_info \in {<<Period("p1", prop)>> : prop \in PeriodProps}
                       \cup {<<Period("p1", prop), Period("p2", NoProps)>> :
                                prop \in PeriodProps}
    /\ save_svg_as_pdf = FALSE
    /\ Constructed
    /\ last = NoWrite

WritePlanning ==
    \E periods \in {[given |-> FALSE, keys |-> {}], [given |-> TRUE, keys |-> {"p1"}]} :
        /\ last.op = "init"
        /\ last' = [op |-> "write_planning", periods |-> periods,
                    calls |-> write_planning(WriterSettings, periods, 1, <<>>)]
        /\ UNCHANGED <<plannerConfig, vacationState, employees, objs, tasks_and_milestones, subprojects,
                       programma>>

NextWriter == WritePlanning

SpecWriter == InitWriter /\ [][NextWriter]_vars

(***************************************************************************)
(* ProjectPlanner.write_planning, the files of a run: per period the tasks *)
(* chart, its pdf, the resources chart, its pdf, the vacations chart and   *)
(* its pdf, in this order.  What the collaborators do is an input: whether *)
(* svg42pdf can be imported, whether its converter raises, and what the    *)
(* resources renderer raises.  An exception no handler catches ends the    *)
(* run: err is set and nothing more is written.                            *)
(***************************************************************************)
View(period_key, kind) == [period |-> period_key, kind |-> kind]

\* st is [err, written]; a run that has failed writes nothing more.
written(st, view) == IF st.err # NoError THEN st ELSE [st EXCEPT !.written = Append(@, view)]

raised(st, error) == IF st.err # NoError THEN st ELSE [st EXCEPT !.err = error]

\* svg42pdf.svg42pdf(...): the pdf next to a chart, or the converter's exception.
convert_to_pdf(st, period_key, kind, env) ==
    IF env.converter = NoError THEN written(st, View(period_key, kind))
    ELSE raised(st, env.converter)

\* Lines 1174-1197: the tasks chart, and its pdf when pdfs are asked for and
\* svg42pdf was imported.
write_tasks_view(st, save_pdf, period_key, env) ==
    IF save_pdf /\ env.importable
    THEN convert_to_pdf(written(st, View(period_key, "tasks.svg")), period_key,
                        "tasks.pdf", env)
    ELSE written(st, View(period_key, "tasks.svg"))

\* Lines 1199-1225: a TypeError of the resources renderer is logged, any
\* other exception leaves write_planning.
write_resources_view(st, save_pdf, write_resources, period_key, env) ==
    IF ~write_resources THEN st
    ELSE IF env.resources = "TypeError" THEN st
    ELSE IF env.resources # NoError THEN raised(st, env.resources)
    ELSE IF save_pdf /\ env.importable
    THEN convert_to_pdf(written(st, View(period_key, "resources.svg")), period_key,
                        "resources.pdf", env)
    ELSE written(st, View(period_key, "resources.svg"))

\* Lines 1227-1246.
write_vacations_view(st, save_pdf, write_vacations, period_key, env) ==
    IF ~write_vacations THEN st
    ELSE IF save_pdf /\ env.importable
    THEN convert_to_pdf(written(st, View(period_key, "vacations.svg")), period_key,
                        "vacations.pdf", env)
    ELSE written(st, View(period_key, "vacations.svg"))

write_period_views(st, save_pdf, call, period_key, env) ==
    write_vacations_view(
        write_resources_view(
            write_tasks_view(st, save_pdf, period_key, env),
            save_pdf, call.write_resources, period_key, env),
        save_pdf, call.write_vacations, period_key, env)

\* call: write_resources, write_vacations, periods (the keys asked for, in
\* the order of period_info) and env, what the collaborators do per period.
RECURSIVE write_views(_, _, _, _)
write_views(save_pdf, call, i, st) ==
    IF i > Len(call.periods) THEN st
    ELSE write_views(save_pdf, call, i + 1,
                     write_period_views(st, save_pdf, call, call.periods[i],
                                        call.env[call.periods[i]]))

PeriodKeys == <<"p1", "p2">>

Environments ==
    [importable : BOOLEAN, converter : {NoError, "RuntimeError"},
     resources : {NoError, "TypeError", "ValueError"}]

ViewCalls ==
    [write_resources : BOOLEAN, write_vacations : BOOLEAN,
     periods : {PeriodKeys, <<"p2">>},
     env : [{"p1", "p2"} -> Environments]]

InitViews ==
    /\ filter_employees = NoFilter
    /\ details = TRUE
    /\ collaps_tasks = FALSE
    /\ start_date = 1
    /\ end_date = MaxDate
    /\ planning_start = start_date
    /\ planning_end = end_date
    /\ date_today = None
    /\ scale = NoScale
    /\ period_info = <<Period("p1", NoProps), Period("p2", NoProps)>>
    /\ save_svg_as_pdf \in BOOLEAN
    /\ Constructed
    /\ last \in [op : {"write_planning.args"}, call : ViewCalls, err : {NoError},
                 written : {<<>>}]

WriteViews ==
    /\ last.op = "write_planning.args"
    /\ \E st \in {write_views(save_svg_as_pdf, last.call, 1,
                              [err |-> NoError, written |-> <<>>])} :
        last' = [last EXCEPT !.op = "write_planning", !.err = st.err,
                             !.written = st.written]
    /\ UNCHANGED <<plannerConfig, vacationState, employees, objs, tasks_and_milestones, subprojects,
                   programma>>

NextViews == WriteViews

SpecViews == InitViews /\ [][NextViews]_vars

(***************************************************************************)
(* Vacations.  Vacation.__init__ parses start and end and hands them to    *)
(* its pool: the chart library's global pool (gantt.add_vacations, which   *)
(* adds every day from start to end) or the employee's resource            *)
(* (gantt.Resource.add_vacations, which appends the interval).             *)
(***************************************************************************)
Interval(key, start, end) == [key |-> key, start |-> start, end |-> end]

StartEndBase_init(start, end) ==
    [start |-> parse_date(start, None), end |-> parse_date(end, None)]

gantt_add_vacations(pool, start, end) ==
    IF end = None THEN pool \cup {start}
    ELSE pool \cup {day \in Dates : start <= day /\ day <= end}

Resource_add_vacations(intervals, dfrom, dto) ==
    Append(intervals, <<dfrom, IF dto = None THEN dfrom ELSE dto>>)

\* ProjectPlanner.add_vacations: st is [vacations, VACATIONS].
RECURSIVE add_vacations(_, _, _)
add_vacations(vacations_info, i, st) ==
    IF i > Len(vacations_info) THEN st
    ELSE add_vacations(vacations_info, i + 1,
             [vacations |-> DictSet(st.vacations, vacations_info[i].key,
                                    StartEndBase_init(vacations_info[i].start,
                                                      vacations_info[i].end)),
              VACATIONS |-> gantt_add_vacations(
                                st.VACATIONS,
                                parse_date(vacations_info[i].start, None),
                                parse_date(vacations_info[i].end, None))])

\* add_vacation_employee: the intervals of a new resource.
RECURSIVE add_vacation_employee(_, _, _)
add_vacation_employee(vacations_info, i, intervals) ==
    IF i > Len(vacations_info) THEN intervals
    ELSE add_vacation_employee(vacations_info, i + 1,
             Resource_add_vacations(intervals,
                                    parse_date(vacations_info[i].start, None),
                                    parse_date(vacations_info[i].end, None)))

\* Lines 718-735: one task per vacation for the vacations chart; a vacation
\* without end lasts one day.  r is [err, tasks].
vacation_task(v) ==
    Task_init(v.key, v.start, v.end, IF v.end = None THEN 1 ELSE None, FALSE, NoList)

RECURSIVE vacation_tasks(_, _, _)
vacation_tasks(vacations_info, i, r) ==
    IF i > Len(vacations_info) \/ r.err # NoError THEN r
    ELSE vacation_tasks(vacations_info, i + 1,
             IF vacation_task(vacations_info[i]).err # NoError
             THEN [r EXCEPT !.err = vacation_task(vacations_info[i]).err]
             ELSE [r EXCEPT !.tasks = Append(@, vacation_task(vacations_info[i]).obj[1])])

\* Lines 699-736 for one employee: the Employee with its resource is stored,
\* then the vacation tasks are built and the project goes to the chart.
add_employee(employee, r, st) ==
    IF r.err # NoError
    THEN [st EXCEPT !.err = r.err,
                    !.employees = @ \cup {employee.key},
                    !.resource_vacations =
                        DictSet(@, employee.key,
                                add_vacation_employee(employee.vacations, 1, <<>>))]
    ELSE [st EXCEPT !.employees = @ \cup {employee.key},
                    !.resource_vacations =
                        DictSet(@, employee.key,
                                add_vacation_employee(employee.vacations, 1, <<>>)),
                    !.vacations_gantt = DictSet(@, employee.key, r.tasks)]

RECURSIVE add_employees_info(_, _, _)
add_employees_info(employees_info, i, st) ==
    IF i > Len(employees_info) \/ st.err # NoError THEN st
    ELSE add_employees_info(employees_info, i + 1,
             add_employee(employees_info[i],
                          vacation_tasks(employees_info[i].vacations, 1,
                                         [err |-> NoError, tasks |-> <<>>]),
                          st))

\* The vacations of the settings file: one day, an interval, and intervals
\* that end before they start.
Intervals(key) ==
    {Interval(key, s, e) : s \in Dates, e \in {None} \cup Dates}

VacationInfos ==
    {<<v>> : v \in Intervals("v1")}
    \cup {<<v, Interval("v2", MaxDate, MaxDate)>> : v \in Intervals("v1")}

EmployeeInfos ==
    {<<[key |-> k, vacations |-> info]>> : k \in EmployeeKeys, info \in VacationInfos}
    \cup {<<[key |-> "alice", vacations |-> info], [key |-> "bob", vacations |-> <<>>]>> :
             info \in VacationInfos}

\* The settings of a run: the global vacations and the employees; called:
\* the operations that have run.
InitVacations ==
    /\ filter_employees = NoFilter
    /\ details = TRUE
    /\ collaps_tasks = FALSE
    /\ start_date = 1
    /\ end_date = MaxDate
    /\ NoPeriods
    /\ Constructed
    /\ last \in [op : {"init"}, vacations_info : VacationInfos,
                 employees_info : EmployeeInfos, err : {NoError}, called : {{}}]

AddVacations ==
    /\ "add_vacations" \notin last.called
    /\ \E st \in {add_vacations(last.vacations_info, 1,
                                [vacations |-> vacations, VACATIONS |-> VACATIONS])} :
        /\ vacations' = st.vacations
        /\ VACATIONS' = st.VACATIONS
    /\ last' = [last EXCEPT !.op = "add_vacations", !.err = NoError,
                            !.called = @ \cup {"add_vacations"}]
    /\ UNCHANGED <<plannerConfig, employees, resource_vacations, vacations_gantt, objs,
                   tasks_and_milestones, subprojects, programma>>

AddEmployeesWithVacations ==
    /\ "add_employees" \notin last.called
    /\ \E st \in {add_employees_info(last.employees_info, 1,
                      [err |-> NoError, employees |-> employees,
                       resource_vacations |-> resource_vacations,
                       vacations_gantt |-> vacations_gantt])} :
        /\ employees' = st.employees
        /\ resource_vacations' = st.resource_vacations
        /\ vacations_gantt' = st.vacations_gantt
        /\ last' = [last EXCEPT !.op = "add_employees", !.err = st.err,
                                !.called = @ \cup {"add_employees"}]
    /\ UNCHANGED <<plannerConfig, vacations, VACATIONS, objs, tasks_and_milestones,
                   subprojects, programma>>

NextVacations == AddVacations \/ AddEmployeesWithVacations

SpecVacations == InitVacations /\ [][NextVacations]_vars

(***************************************************************************)
(* main.check_beschikbaar: the check of a command-line selection against   *)
(* the keys of the settings file.  A requested item that is no key raises  *)
(* ValueError; otherwise the function ends without a return statement, so  *)
(* the call gives None.  returned is the Python value as text.             *)
(***************************************************************************)
ItemsOf(list) == {list[i] : i \in 1..Len(list)}

check_beschikbaar(gevraagd, beschikbaar) ==
    IF ItemsOf(gevraagd) \ beschikbaar # {}
    THEN [err |-> "ValueError", returned |-> ""]
    ELSE [err |-> NoError, returned |-> "None"]

\* bool(value) of a returned value.
Truthy(returned) == returned \notin {"", "None", "False"}

Items == {"A", "B", "C", "D"}

ItemLists ==
    {<<>>} \cup {<<a>> : a \in Items} \cup {<<a, b>> : a \in Items, b \in Items}

InitSelection ==
    /\ filter_employees = NoFilter
    /\ details = TRUE
    /\ collaps_tasks = FALSE
    /\ start_date = 1
    /\ end_date = MaxDate
    /\ NoPeriods
    /\ Constructed
    /\ last \in [op : {"check_beschikbaar.args"}, gevraagd : ItemLists,
                 beschikbaar : SUBSET Items, err : {NoError}, returned : {""}]

CheckBeschikbaar ==
    /\ last.op = "check_beschikbaar.args"
    /\ \E r \in {check_beschikbaar(last.gevraagd, last.beschikbaar)} :
        last' = [last EXCEPT !.op = "check_beschikbaar", !.err = r.err,
                             !.returned = r.returned]
    /\ UNCHANGED <<plannerConfig, vacationState, employees, objs, tasks_and_milestones,
                   subprojects, programma>>

NextSelection == CheckBeschikbaar

SpecSelection == InitSelection /\ [][NextSelection]_vars


(***************************************************************************)
(* make_projects with and without details: the subproject p1 has one or    *)
(* two children, an inline task or milestone under the key k2 and the      *)
(* shared task or milestone k1 by its bare key, each of them marked as a   *)
(* detail or not.                                                          *)
(***************************************************************************)
DetailConfigs(key) ==
    {Cfg(key, "task", s, s, None, {"alice"}, NoDependencies, d) :
        s \in Dates, d \in BOOLEAN}
    \cup {Cfg(key, "milestone", s, None, None, {"alice"}, NoDependencies, d) :
             s \in Dates, d \in BOOLEAN}

DetailEntries == {<<>>} \cup {<<Entry("k1", cfg)>> : cfg \in DetailConfigs("k1")}

DetailInline == {Child("k2", "", cfg) : cfg \in DetailConfigs("k2")}

DetailCalls ==
    {[projects |-> <<Project("p1", tasks)>>, selection |-> {}] :
        tasks \in {<<RefChild("k1")>>} \cup {<<c>> : c \in DetailInline}
                  \cup {<<RefChild("k1"), c>> : c \in DetailInline}
                  \cup {<<c, RefChild("k1")>> : c \in DetailInline}}

InitDetails ==
    /\ filter_employees = NoFilter
    /\ details \in BOOLEAN
    /\ collaps_tasks \in BOOLEAN
    /\ start_date = 1
    /\ end_date = MaxDate
    /\ NoPeriods
    /\ Constructed
    /\ last \in [op : {"make_projects.args"}, shared : DetailEntries, call : DetailCalls,
                 err : {NoError}, pid : {None}, ms : {None}, me : {None},
                 attached : {{}}]

\* The shared element of the planner's settings file, if there is one.
DetailsShared ==
    /\ Awaiting
    /\ last.shared # <<>>
    /\ "k1" \notin DOMAIN tasks_and_milestones
    /\ \E st \in {add_tasks_and_milestones(
                       objs, tasks_and_milestones, subprojects, filter_employees, employees,
                       [info |-> TRUE, modules |-> <<last.shared>>])} :
        /\ objs' = st.objs
        /\ tasks_and_milestones' = st.tm
    /\ UNCHANGED <<plannerConfig, vacationState, employees, subprojects, programma, last>>

DetailsAssemble ==
    /\ Awaiting
    /\ last.shared = <<>> \/ "k1" \in DOMAIN tasks_and_milestones
    /\ \E st \in {make_projects(PlannerSettings, objs, tasks_and_milestones, subprojects,
                                last.call)} :
        /\ objs' = st.objs
        /\ subprojects' = st.sp
        /\ programma' = IF st.top = None THEN programma ELSE Append(programma, st.top)
        /\ last' = [last EXCEPT !.op = "make_projects", !.err = st.err,
                                !.pid = st.sp["p1"], !.ms = st.ms, !.me = st.me,
                                !.attached = st.attached]
    /\ UNCHANGED <<plannerConfig, vacationState, employees, tasks_and_milestones>>

NextDetails == AssemblyEmployees \/ DetailsShared \/ DetailsAssemble

SpecDetails == InitDetails /\ [][NextDetails]_vars


(***************************************************************************)
(* The constructor of the planner on a program window, the periods of the  *)
(* settings file and a selection of periods: lines 455-470 narrow the      *)
(* window (start_date, end_date) by every selected period.                 *)
(***************************************************************************)
\* lines 461-470: one selected period narrows the window w.
narrow_window(w, period_value, default_start, default_end) ==
    LET period_start == parse_date(IF period_value.planning_start = None
                                   THEN default_start
                                   ELSE period_value.planning_start, None)
        period_end == parse_date(IF period_value.planning_end = None
                                 THEN default_end
                                 ELSE period_value.planning_end, None)
    IN  [start_date |-> IF period_start > w.start_date THEN period_start
                        ELSE w.start_date,
         end_date |-> IF period_end < w.end_date THEN period_end ELSE w.end_date]

\* lines 459-470: the loop over period_info, from its i-th period on.
RECURSIVE narrow_by_periods(_, _, _, _, _, _)
narrow_by_periods(w, info, periods, i, default_start, default_end) ==
    IF i > Len(info) THEN w
    ELSE narrow_by_periods(IF info[i].key \in periods.keys
                           THEN narrow_window(w, info[i].prop, default_start, default_end)
                           ELSE w,
                           info, periods, i + 1, default_start, default_end)

\* lines 455-470.
clipping_window(start, end, info, periods) ==
    IF ~periods.given THEN [start_date |-> start, end_date |-> end]
    ELSE narrow_by_periods([start_date |-> start, end_date |-> end], info, periods, 1,
                           start, end)

\* The bounds of the first period: absent, a date or a text; the second
\* period has a start and an end in this order.
WindowProps ==
    {PeriodProp(NoScale, s, e, None) :
        s \in {None, Text(MaxDate)} \cup Dates, e \in {None, Text(1)} \cup Dates}

OrderedProps ==
    {PeriodProp(NoScale, pair[1], pair[2], None) :
        pair \in {pr \in Dates \X Dates : pr[1] <= pr[2]}}

WindowInfos ==
    {<<>>} \cup {<<Period("p1", prop)>> : prop \in WindowProps}
    \cup {<<Period("p1", first), Period("p2", second)>> :
             first \in WindowProps, second \in OrderedProps}

PeriodSelections ==
    {[given |-> FALSE, keys |-> {}]}
    \cup {[given |-> TRUE, keys |-> keys] : keys \in SUBSET {"p1", "p2"}}

InitWindow ==
    /\ filter_employees = NoFilter
    /\ details = TRUE
    /\ collaps_tasks = FALSE
    /\ planning_start \in Dates
    /\ planning_end \in Dates
    /\ planning_start <= planning_end
    /\ start_date = None
    /\ end_date = None
    /\ date_today = None
    /\ scale = NoScale
    /\ period_info \in WindowInfos
    /\ save_svg_as_pdf = FALSE
    /\ Constructed
    /\ last \in [op : {"init.args"}, periods : PeriodSelections]

ProjectPlanner_init ==
    /\ last.op = "init.args"
    /\ \E w \in {clipping_window(planning_start, planning_end, period_info,
                                 last.periods)} :
        /\ start_date' = w.start_date
        /\ end_date' = w.end_date
    /\ last' = [last EXCEPT !.op = "init"]
    /\ UNCHANGED <<filter_employees, details, collaps_tasks, planning_start, planning_end,
                   date_today, scale, period_info, save_svg_as_pdf, vacationState,
                   employees, objs, tasks_and_milestones, subprojects, programma>>

NextWindow == ProjectPlanner_init

SpecWindow == InitWindow /\ [][NextWindow]_vars

(***************************************************************************)
(* The properties.                                                         *)
(***************************************************************************)
\* Some element of the heap was handed a dependency list with a None entry.
NullDependency ==
    \E i \in 1..Len(objs) :
        \E j \in 1..Len(objs[i].depends_of.items) : objs[i].depends_of.items[j] = None

\* C1: without an employee filter, a call that looks up a dependency key which
\* is in neither namespace ends in the fatal AssertionError of get_dependency,
\* and the element that declared the dependency is not constructed,
\* registered or attached.
C1_UnresolvedDependencyIsFatal ==
    (filter_employees = NoFilter /\ last.unresolved)
        => (last.err = "AssertionError" /\ ~last.built /\ ~NullDependency)

C1_Witness ==
    /\ filter_employees = NoFilter
    /\ last.op = "make_projects"
    /\ last.unresolved
    /\ last.err = "AssertionError"
    /\ tasks_and_milestones # EmptyDict

\* C2: with an employee filter, a dependency key in neither namespace does
\* not abort the call, and no element is handed a dependency list with a null
\* entry.
C2_UnresolvedDependencyIsDropped ==
    filter_employees # NoFilter
        => /\ (last.unresolved => last.err # "AssertionError")
           /\ ~NullDependency

\* C3: a call of add_tasks_and_milestones in which the same task key occurs
\* in two modules raises ValueError before any task or milestone of the call
\* is constructed.
C3_DuplicateKeyRaisesBeforeConstruction ==
    last.duplicate => (last.err = "ValueError" /\ ~last.made)

\* C4: a task key that occurs in two modules, and a subproject key that is
\* already registered, are fatal with and without an employee filter,
\* whoever contributes to the duplicated entries.
C4_DuplicateAlwaysFatal ==
    /\ (last.op = "add_tasks_and_milestones" /\ last.duplicate) => last.err # NoError
    /\ (last.op = "make_projects" /\ last.existing) => last.err # NoError

\* C5: a key of the tasks-and-milestones namespace is registered once: no
\* call replaces the entry of a key that is already registered.
C5_TaskKeyNeverReplaced ==
    [][\A k \in DOMAIN tasks_and_milestones :
          /\ k \in DOMAIN tasks_and_milestones'
          /\ tasks_and_milestones'[k] = tasks_and_milestones[k]]_vars

\* C6: a subproject key is registered at most once: a make_projects call that
\* comes to a key already in the subprojects namespace raises ValueError, and
\* every key keeps the project object it was first registered with.
C6_SubprojectKeyRegisteredOnce ==
    [][/\ \A k \in DOMAIN subprojects :
             /\ k \in DOMAIN subprojects'
             /\ subprojects'[k] = subprojects[k]
             /\ objs'[subprojects'[k]].kind = "project"
             /\ objs'[subprojects'[k]].name = k
       /\ last'.existing => last'.err = "ValueError"]_vars

C6_Witness ==
    /\ last.op = "make_projects"
    /\ last.existing
    /\ last.err = "ValueError"
    /\ \E k \in DOMAIN subprojects : objs[subprojects[k]].name = k

\* C7: a task given neither an end date nor a duration is rejected with
\* ValueError and no task is produced.
C7_NeitherEndNorDuration ==
    (last.op = "Task" /\ last.end = None /\ last.duration = None)
        => (last.err = "ValueError" /\ last.produced = <<>>)

C7_Witness ==
    /\ last.op = "Task"
    /\ last.label # NoLabel
    /\ last.start # None
    /\ last.end = None
    /\ last.duration = None
    /\ last.err = "ValueError"

\* C8: a task with a start date and an end date earlier than the start date
\* is rejected with ValueError and no chart element is produced.
C8_EndBeforeStart ==
    (last.op = "Task" /\ last.start # None /\ last.end # None /\ last.end < last.start)
        => (last.err = "ValueError" /\ last.produced = <<>>)

C8_Witness ==
    /\ last.op = "Task"
    /\ last.label # NoLabel
    /\ last.start # None
    /\ last.end # None
    /\ last.end < last.start
    /\ last.duration # None
    /\ last.err = "ValueError"

\* The factory was applied to a milestone configuration with an end field.
MilestoneWithEnd ==
    /\ last.op = "make_task_or_milestone"
    /\ last.cfg.type = "milestone"
    /\ last.cfg.end # None

\* C9 as stated: a milestone configuration with an end field makes
\* make_task_or_milestone fail with ValueError before a Milestone is built.
C9_MilestoneWithEndIsValueError ==
    MilestoneWithEnd => (last.err = "ValueError" /\ last.produced = <<>>)

\* C9 amended: a milestone configuration with an end field makes
\* make_task_or_milestone fail before a Milestone is built: with the
\* AssertionError of the dependency lookup when no filter is active and a
\* dependency key is in neither namespace, with ValueError otherwise.
C9_MilestoneWithEndFails ==
    MilestoneWithEnd
        => /\ last.produced = <<>>
           /\ last.err = IF filter_employees = NoFilter /\ last.unresolved
                         THEN "AssertionError" ELSE "ValueError"

C9_Witness ==
    /\ MilestoneWithEnd
    /\ last.cfg.dependent_of # NoDependencies
    /\ ~last.unresolved
    /\ last.err = "ValueError"

\* C10: a task given both an end date and a duration is rejected, as one
\* given neither is.
C10_BothEndAndDuration ==
    (last.op = "Task" /\ last.end # None /\ last.duration # None)
        => (last.err # NoError /\ last.produced = <<>>)


\* C11: every task of the assembled tree that has a start and an end date,
\* the summary task of a collapsed subproject included, ends no earlier than
\* it starts.
C11_TaskEndsAfterStart ==
    \A i \in 1..Len(objs) :
        (objs[i].kind = "task" /\ objs[i].start # None /\ objs[i].stop # None)
            => objs[i].stop >= objs[i].start


\* The children of the subproject p1 in the call, and the call made with
\* every child an inline task that states its end date.
AssembledTasks == last.call.projects[1].tasks

InlineTasksWithEnd ==
    /\ last.op = "make_projects"
    /\ Len(AssembledTasks) > 0
    /\ \A i \in 1..Len(AssembledTasks) :
           /\ AssembledTasks[i].ref = ""
           /\ AssembledTasks[i].cfg.type = "task"
           /\ AssembledTasks[i].cfg.end # None

LatestEnd == SetMax({AssembledTasks[i].cfg.end : i \in 1..Len(AssembledTasks)})

\* C15: whatever the order of the children, the aggregate end of a subproject
\* is the latest end date among its surviving children, clipped to the end
\* of the planning window.  Stated for inline tasks with an end date, none
\* of them filtered out.
C15_AggregateEndIsLatestEnd ==
    (InlineTasksWithEnd /\ last.err = NoError /\ filter_employees = NoFilter)
        => last.me = Min2(end_date, LatestEnd)


EarliestStart == SetMin({AssembledTasks[i].cfg.start : i \in 1..Len(AssembledTasks)})

\* C12: with collapse enabled, a subproject with surviving task children and
\* no nested project has exactly one child, the summary task from its
\* aggregate start to its aggregate end, and none of its tasks is attached.
\* Stated for inline tasks with an end date that start inside the planning
\* window, none of them filtered out.
C12_CollapsedIntoOneSummaryTask ==
    (collaps_tasks /\ InlineTasksWithEnd /\ last.err = NoError
     /\ filter_employees = NoFilter
     /\ \A i \in 1..Len(AssembledTasks) : AssembledTasks[i].cfg.start < end_date)
        => /\ last.attached = {}
           /\ Len(objs[last.pid].children) = 1
           /\ objs[objs[last.pid].children[1]].kind = "task"
           /\ objs[objs[last.pid].children[1]].start = EarliestStart
           /\ objs[objs[last.pid].children[1]].stop = Min2(end_date, LatestEnd)


\* A child of p1 that is a task: an inline task, or the key of a shared task.
IsTaskChild(child) ==
    IF child.ref = "" THEN child.cfg.type = "task"
    ELSE child.ref \in DOMAIN tasks_and_milestones

\* Some contributor of the task child is in the filter set.
ChildContributes(child) ==
    LET contributing == IF child.ref = "" THEN child.cfg.employees
                        ELSE objs[tasks_and_milestones[child.ref]].employees
    IN  (contributing \cap filter_employees) # {}

IsAttached(child) == <<"p1", child.key>> \in last.attached

\* The children of p1 without the task children that have no contributor in
\* the filter set.
KeptChild(child) == ~IsTaskChild(child) \/ ChildContributes(child)

KeptCall ==
    [last.call EXCEPT !.projects[1].tasks = SelectSeq(@, KeptChild)]

FilteredCall ==
    /\ last.op = "make_projects"
    /\ last.err = NoError
    /\ filter_employees # NoFilter

ContributorChildren ==
    {objs[last.top].children[i] : i \in 1..Len(objs[last.top].children)}

\* C14: after make_projects, a subproject is a child of the contributor's
\* project exactly when its key is in the selection; selected or not, every
\* subproject of the call is in the subprojects namespace and a dependency
\* on its key resolves to it.
C14_AttachedIffSelected ==
    (last.op = "make_projects" /\ last.err = NoError)
        => \A i \in 1..Len(last.call.projects) :
               LET key == last.call.projects[i].key
               IN  /\ key \in DOMAIN subprojects
                   /\ objs[subprojects[key]].kind = "project"
                   /\ objs[subprojects[key]].name = key
                   /\ subprojects[key] \in ContributorChildren
                          <=> key \in last.call.selection
                   /\ get_dependency(tasks_and_milestones, subprojects,
                                     filter_employees, key).dep = subprojects[key]

C14_Witness ==
    /\ last.op = "make_projects"
    /\ last.err = NoError
    /\ Len(last.call.projects) = 2
    /\ last.call.selection = {"p1"}
    /\ ContributorChildren = {subprojects["p1"]}
    /\ "p2" \in DOMAIN subprojects

C17_TasksBeforeSubprojects ==
    last.op = "get_dependency" =>
        /\ last.key \in DOMAIN tasks_and_milestones =>
               /\ last.err = NoError
               /\ last.dep = tasks_and_milestones[last.key]
               /\ last.warning <=> last.key \in DOMAIN subprojects
        /\ (last.key \notin DOMAIN tasks_and_milestones /\ last.key \in DOMAIN subprojects) =>
               /\ last.err = NoError
               /\ last.dep = subprojects[last.key]
               /\ ~last.warning

\* The key is in both namespaces and the lookup returned the task.
C17_Witness ==
    /\ last.op = "get_dependency"
    /\ last.key \in DOMAIN tasks_and_milestones
    /\ last.key \in DOMAIN subprojects
    /\ last.dep = tasks_and_milestones[last.key]
    /\ last.dep # subprojects[last.key]
    /\ last.warning

(***************************************************************************)
(* C18: the three shapes of a dependency reference resolve identically.    *)
(* For a list of keys k1..kn get_dependencies returns the ordered list of  *)
(* what get_dependency gives for k1, ..., kn; every mapping whose category *)
(* lists concatenate to k1..kn gives the same result, and a bare string    *)
(* gives the result of the one-element list.  A lookup that fails, fails   *)
(* for every shape.                                                        *)
(***************************************************************************)
Resolved(dependencies) ==
    get_dependencies(tasks_and_milestones, subprojects, filter_employees, dependencies)

LastKeys == DependencyKeys(last.dependencies)

C18_ShapesResolveIdentically ==
    (last.op = "get_dependencies" /\ last.dependencies.form # "none") =>
        /\ last.err = NoError =>
               last.deps = List([i \in 1..Len(LastKeys) |->
                                    get_dependency(tasks_and_milestones, subprojects,
                                                   filter_employees, LastKeys[i]).dep])
        /\ \A other \in {DepList(LastKeys)}
                        \cup {DepDict(groups) : groups \in Groupings(LastKeys)}
                        \cup {DepStr(k) : k \in {key \in Keys : LastKeys = <<key>>}} :
               /\ Resolved(other).err = last.err
               /\ last.err = NoError => Resolved(other).deps = last.deps

\* A mapping of two categories resolved to the two different objects of its
\* keys, as the list of the same keys does.
C18_Witness ==
    /\ last.op = "get_dependencies"
    /\ last.dependencies.form = "dict"
    /\ Len(last.dependencies.groups) = 2
    /\ last.err = NoError
    /\ last.deps.given
    /\ Len(last.deps.items) = 2
    /\ last.deps.items[1] # last.deps.items[2]
    /\ last.deps.items[1] # None
    /\ last.deps.items[2] # None
    /\ last.deps = Resolved(DepList(LastKeys)).deps

(***************************************************************************)
(* C19: get_nearest_saturday gives a Saturday at most 3 days before or     *)
(* after the date, so a Saturday is returned unchanged and snapping the    *)
(* result again changes nothing; write_planning snaps the today marker     *)
(* exactly when a today is set (by the period or program-wide) and the     *)
(* scale of the period's chart is not daily: without a today the renderer  *)
(* gets None, on a daily chart it gets the today as it was set.            *)
(***************************************************************************)
IsSaturday(date) == date % 7 = 6

Distance(a, b) == IF a >= b THEN a - b ELSE b - a

PropOf(period_key) ==
    period_info[CHOOSE i \in 1..Len(period_info) : period_info[i].key = period_key].prop

\* The date a property names, whether it is a date or a text.
DateNamed(value) == IF value < 0 THEN 0 - value ELSE value

AskedToday(period_key) ==
    IF PropOf(period_key).today # None
    THEN DateNamed(PropOf(period_key).today)
    ELSE date_today

DailyChart(period_key) ==
    \/ PropOf(period_key).scale = "daily"
    \/ PropOf(period_key).scale = NoScale /\ scale = SCALES.daily

Snapped(asked, today) ==
    /\ IsSaturday(today)
    /\ Distance(today, asked) <= 3
    /\ IsSaturday(asked) => today = asked
    /\ get_nearest_saturday(today) = today

C19_SaturdaySnap ==
    last.op = "write_planning" =>
        \A i \in 1..Len(last.calls) :
            \E asked \in {AskedToday(last.calls[i].period)} :
                IF asked = None THEN last.calls[i].today = None
                ELSE IF DailyChart(last.calls[i].period) THEN last.calls[i].today = asked
                ELSE Snapped(asked, last.calls[i].today)

\* A today on a Wednesday went to the renderer of a weekly chart as the
\* Saturday three days later, and the next period, on a daily chart, kept a
\* today that is no Saturday.
C19_Witness ==
    /\ last.op = "write_planning"
    /\ Len(last.calls) = 2
    /\ PropOf("p1").scale = "weekly"
    /\ AskedToday("p1") % 7 = 3
    /\ last.calls[1].today = AskedToday("p1") + 3
    /\ DailyChart("p2")
    /\ ~IsSaturday(AskedToday("p2"))
    /\ last.calls[2].today = AskedToday("p2")

(***************************************************************************)
(* C20: the window a period's chart is drawn for.  A bound the period does *)
(* not override goes to the renderer as the program-level planning_start   *)
(* or planning_end, unchanged; a bound the period overrides goes to the    *)
(* renderer as the date the override names, and the other bound is not     *)
(* touched by it.                                                          *)
(***************************************************************************)
ResolvedBound(override, program_bound) ==
    IF override = None THEN program_bound ELSE DateNamed(override)

C20_WindowFromProgram ==
    last.op = "write_planning" =>
        \A i \in 1..Len(last.calls) :
            /\ last.calls[i].start =
                   ResolvedBound(PropOf(last.calls[i].period).planning_start, planning_start)
            /\ last.calls[i].end =
                   ResolvedBound(PropOf(last.calls[i].period).planning_end, planning_end)

\* The first period overrides the start alone, with a text, and its chart
\* ends at the program-level end; the second overrides nothing and gets the
\* program-level window.
C20_Witness ==
    /\ last.op = "write_planning"
    /\ Len(last.calls) = 2
    /\ planning_start # None
    /\ planning_end # None
    /\ IsText(PropOf("p1").planning_start)
    /\ PropOf("p1").planning_end = None
    /\ last.calls[1].start = MaxDate
    /\ last.calls[1].start # planning_start
    /\ last.calls[1].end = planning_end
    /\ PropOf("p2") = NoProps
    /\ last.calls[2].start = planning_start
    /\ last.calls[2].end = planning_end

(***************************************************************************)
(* C21: in write_planning a failure of the pdf conversion or of the        *)
(* resources chart of one period never aborts the run: whatever the        *)
(* converter or the resources renderer raises, the run ends without error, *)
(* and the tasks chart of every period asked for and, when asked for, its  *)
(* vacations chart are written.                                            *)
(***************************************************************************)
WasWritten(period_key, kind) ==
    \E n \in 1..Len(last.written) : last.written[n] = View(period_key, kind)

C21_FailuresNeverAbort ==
    last.op = "write_planning" =>
        /\ last.err = NoError
        /\ \A i \in 1..Len(last.call.periods) :
               /\ WasWritten(last.call.periods[i], "tasks.svg")
               /\ last.call.write_vacations =>
                      WasWritten(last.call.periods[i], "vacations.svg")

(***************************************************************************)
(* C22: without an employee filter a cyclic reference ends make_projects   *)
(* in an unresolved-reference failure (the KeyError of a child key, the    *)
(* AssertionError of a dependency key) and never in unbounded recursion.   *)
(* Cyclic: a subproject lists its own key as a child, two subprojects of   *)
(* the call list each other, or an inline task depends on its own key, the *)
(* key being no shared task or milestone.                                  *)
(***************************************************************************)
ListsChild(project, key) ==
    \E i \in 1..Len(project.tasks) : project.tasks[i].ref = key

SelfChild(call) ==
    \E p \in 1..Len(call.projects) :
        /\ ListsChild(call.projects[p], call.projects[p].key)
        /\ call.projects[p].key \notin DOMAIN tasks_and_milestones

MutualChildren(call) ==
    \E p, q \in 1..Len(call.projects) :
        /\ p < q
        /\ ListsChild(call.projects[p], call.projects[q].key)
        /\ ListsChild(call.projects[q], call.projects[p].key)
        /\ call.projects[q].key \notin DOMAIN tasks_and_milestones

SelfDependency(call) ==
    \E p \in 1..Len(call.projects) :
        \E i \in 1..Len(call.projects[p].tasks) :
            /\ call.projects[p].tasks[i].ref = ""
            /\ call.projects[p].tasks[i].cfg.dependent_of =
                   DepStr(call.projects[p].tasks[i].key)
            /\ call.projects[p].tasks[i].key \notin DOMAIN tasks_and_milestones
            /\ call.projects[p].tasks[i].key \notin DOMAIN subprojects

C22_CycleIsUnresolvedFailure ==
    (/\ last.op = "make_projects"
     /\ filter_employees = NoFilter
     /\ SelfChild(last.call) \/ MutualChildren(last.call) \/ SelfDependency(last.call))
    => last.err \in {"KeyError", "AssertionError"}

(***************************************************************************)
(* C23: every task or milestone make_task_or_milestone produced is         *)
(* afterwards registered in the tasks-and-milestones namespace under its   *)
(* label: after a make_projects call that went through, the label of each  *)
(* inline child that was built is a key of the namespace, and the entry is *)
(* the element that was built and attached for it.                         *)
(***************************************************************************)
ChildrenOf(pid) == {objs[pid].children[i] : i \in 1..Len(objs[pid].children)}

C23_ProducedElementIsRegistered ==
    (last.op = "make_projects" /\ last.err = NoError) =>
        \A m \in last.made :
            /\ m[2] \in DOMAIN tasks_and_milestones
            /\ m \in last.attached =>
                   tasks_and_milestones[m[2]] \in ChildrenOf(subprojects[m[1]])

(***************************************************************************)
(* C24: a vacation that ends before it starts is rejected.  add_vacations  *)
(* with such a vacation fails and does not store it among the planner's    *)
(* vacations; add_employees with such a vacation fails and the interval is *)
(* not among the vacation intervals of the employee's resource.            *)
(***************************************************************************)
IllFormed(v) == v.end # None /\ v.end < v.start

HasIllFormed(vacations_info) ==
    \E i \in 1..Len(vacations_info) : IllFormed(vacations_info[i])

HoldsInterval(employee_key, v) ==
    /\ employee_key \in DOMAIN resource_vacations
    /\ \E n \in 1..Len(resource_vacations[employee_key]) :
           resource_vacations[employee_key][n] = <<v.start, v.end>>

C24_IllFormedVacationRejected ==
    /\ (last.op = "add_vacations" /\ HasIllFormed(last.vacations_info)) =>
           /\ last.err # NoError
           /\ \A i \in 1..Len(last.vacations_info) :
                  IllFormed(last.vacations_info[i]) =>
                      last.vacations_info[i].key \notin DOMAIN vacations
    /\ \A e \in 1..Len(last.employees_info) :
           (last.op = "add_employees" /\ HasIllFormed(last.employees_info[e].vacations)) =>
               /\ last.err # NoError
               /\ \A i \in 1..Len(last.employees_info[e].vacations) :
                      IllFormed(last.employees_info[e].vacations[i]) =>
                          ~HoldsInterval(last.employees_info[e].key,
                                         last.employees_info[e].vacations[i])

(***************************************************************************)
(* C25: the availability check of the command-line selection returns a     *)
(* true value whenever every requested item is a key of the mapping of     *)
(* available items.                                                        *)
(***************************************************************************)
C25_AvailableSelectionIsTrue ==
    (last.op = "check_beschikbaar" /\ ItemsOf(last.gevraagd) \subseteq last.beschikbaar) =>
        /\ last.err = NoError
        /\ Truthy(last.returned)

(***************************************************************************)
(* C26: a surviving child without a resolvable end date leaves the         *)
(* aggregate end of the subproject unchanged.  For a subproject of two     *)
(* children, an inline task with an end date and then a child whose        *)
(* end_date() gives no date, the aggregate end after the call is the one   *)
(* the first child alone gives: its end, clipped to the window end.        *)
(***************************************************************************)
OpenEnded(child) ==
    /\ child.ref # ""
    /\ child.ref \notin DOMAIN tasks_and_milestones
    /\ child.ref \in DOMAIN subprojects
    /\ element_end_date(objs, objs[subprojects[child.ref]]) = None

EndedThenOpenEnded ==
    /\ last.op = "make_projects"
    /\ last.err = NoError
    /\ Len(last.call.projects) = 1
    /\ Len(AssembledTasks) = 2
    /\ AssembledTasks[1].ref = ""
    /\ AssembledTasks[1].cfg.type = "task"
    /\ AssembledTasks[1].cfg.end # None
    /\ <<"p1", AssembledTasks[1].key>> \in last.attached
    /\ OpenEnded(AssembledTasks[2])
    /\ <<"p1", AssembledTasks[2].key>> \in last.attached

C26_OpenEndedChildKeepsEnd ==
    EndedThenOpenEnded => last.me = Min2(end_date, AssembledTasks[1].cfg.end)

(***************************************************************************)
(* C27: whatever the order of the children, the aggregate start of a       *)
(* subproject is the earliest start date among its surviving children that *)
(* start at or after the start of the planning window, a child that starts *)
(* on the window start included.  Stated for inline tasks that start       *)
(* before the window end, none of them filtered out.                       *)
(***************************************************************************)
StartsInWindow ==
    {AssembledTasks[i].cfg.start : i \in 1..Len(AssembledTasks)}
        \cap {day \in Dates : start_date <= day}

C27_AggregateStartIsEarliestStart ==
    (/\ InlineTasksWithEnd
     /\ last.err = NoError
     /\ filter_employees = NoFilter
     /\ \A i \in 1..Len(AssembledTasks) : AssembledTasks[i].cfg.start < end_date
     /\ StartsInWindow # {})
    => last.ms = SetMin(StartsInWindow)

\* The child is marked as a detail: in its own configuration when it is
\* declared inline, in the configuration of the shared element when it is
\* referenced by its bare key.
MarkedDetail(child) ==
    IF child.ref = "" THEN child.cfg.detail
    ELSE \E i \in 1..Len(last.shared) :
             last.shared[i].key = child.ref /\ last.shared[i].cfg.detail

UnmarkedChild(child) == ~MarkedDetail(child)

\* The span of p1 when the children marked as detail are left out of the call.
SpanWithoutDetails ==
    LET st == make_projects(PlannerSettings, SubSeq(objs, 1, Len(last.shared)),
                            tasks_and_milestones, EmptyDict,
                            [last.call EXCEPT
                                !.projects[1].tasks = SelectSeq(@, UnmarkedChild)])
    IN  <<st.ms, st.me>>

DetailChildren ==
    {last.call.projects[1].tasks[i] : i \in 1..Len(last.call.projects[1].tasks)}

\* C28: with details disabled, no child of a subproject that is marked as a
\* detail is attached to the subproject or counted in its span, be it a task
\* or a milestone, declared inline or referenced by the bare key of a shared
\* element; with details enabled (and tasks not collapsed) every child is
\* attached, detail or not.
C28_DetailsAreSkippedWhenDisabled ==
    (last.op = "make_projects" /\ last.err = NoError) =>
        /\ ~details =>
               /\ \A child \in DetailChildren :
                      MarkedDetail(child) => <<"p1", child.key>> \notin last.attached
               /\ <<last.ms, last.me>> = SpanWithoutDetails
        /\ (details /\ ~collaps_tasks) =>
               \A child \in DetailChildren : <<"p1", child.key>> \in last.attached

\* The elements reached from the elements of frontier through at most n
\* child links of the heap.
RECURSIVE Descendants(_, _)
Descendants(frontier, n) ==
    IF n = 0 THEN frontier
    ELSE Descendants(frontier \cup UNION {ChildrenOf(id) : id \in frontier}, n - 1)

\* C29: the assembled structure is a tree without cycles: after make_projects
\* no project of the planner is its own child or descendant; a subproject
\* that lists its own key among its children is not added to itself.
C29_ProjectsFormATree ==
    \A id \in 1..Len(objs) : id \notin Descendants(ChildrenOf(id), Len(objs))

\* C30: the window used for span clipping is the program window narrowed by
\* every selected period: planning_start <= start_date and
\* end_date <= planning_end, the two windows are equal when no selection of
\* periods is given, and start_date <= end_date for every selection.
C30_ClippingWindowWithinProgramWindow ==
    last.op = "init" =>
        /\ planning_start <= start_date
        /\ end_date <= planning_end
        /\ ~last.periods.given => (start_date = planning_start /\ end_date = planning_end)
        /\ start_date <= end_date

====
